---- MODULE Spec2Model ----
(***************************************************************************)
(* Model of app.py, the Streamlit script "Crop Field Delineation with GEE  *)
(* & SAM".  Streamlit executes the script top to bottom once per page load *)
(* and once more after every widget interaction (a "rerun").  One script   *)
(* run is modelled as a walk of pc through the script's statements; the    *)
(* widget values survive between runs, everything else is rebuilt.         *)
(*                                                                         *)
(* Calls into Earth Engine, geemap and samgeo are calls the script cannot  *)
(* see into: each either returns or raises, chosen nondeterministically.   *)
(* A call "fails" when it raises, which is how the script observes it.     *)
(***************************************************************************)
EXTENDS Integers, Sequences, FiniteSets

\* ---- bounds of the model ------------------------------------------------
MaxRuns == 5        \* script runs (page load + reruns) explored per session
MaxDate == 2        \* the date widgets range over the days 1..MaxDate

\* ---- program constants --------------------------------------------------
DefaultStart == 1   \* date_input "Start Date" default (2023-06-01)
DefaultEnd == 2     \* date_input "End Date" default (2023-06-30), later than the start
DefaultCloud == 10  \* slider "Max Cloud Cover (%)" default
CloudValues == {0, 10, 30}   \* slider positions explored (the slider spans 0..30)
Dates == 1..MaxDate

\* The uploaded file as geopandas sees it: does it parse, which reference
\* frame does it declare, what is the geometry of its first feature.
NoFile == [valid |-> FALSE, crs |-> "none", geom |-> "absent"]
Files ==
  {[valid |-> FALSE, crs |-> "none", geom |-> "none"]}
    \cup [valid : {TRUE}, crs : {"EPSG:4326", "EPSG:32643", "none"}, geom : {"Polygon", "Point"}]

\* The remote Sentinel-2 catalog: scenes over the AOI, each with its day and
\* its CLOUDY_PIXEL_PERCENTAGE.
Catalog ==
  {[date |-> 1, cloud |-> 5], [date |-> 1, cloud |-> 20], [date |-> 2, cloud |-> 5]}

VARIABLES
  run,          \* number of script runs started in this session
  pc,           \* position of the running script; "idle" between runs
  secrets,      \* "gcp_service_account" in st.secrets
  uploaded,     \* st.file_uploader value
  start_date,   \* st.date_input "Start Date"
  end_date,     \* st.date_input "End Date"
  cloud_cover,  \* st.slider "Max Cloud Cover (%)"
  clicked,      \* st.button value for the current run
  gpuValue,     \* session value of the checkbox "Use GPU (if available)"
  userWantsGpu, \* the user has ticked the GPU checkbox
  rendered,     \* widgets of the main page drawn by the current / last run
  tempfs,       \* temporary files and directories that exist on disk
  aoi,          \* the ee.Geometry built from the KML
  s2_image,     \* the composite built by get_sentinel_image
  device,       \* device passed to SamGeo2 in this run
  log,          \* stages executed in this run, in order, with their outcome
  messages      \* what this run has shown to the user

vars ==
  <<run, pc, secrets, uploaded, start_date, end_date, cloud_cover, clicked, gpuValue,
    userWantsGpu, rendered, tempfs, aoi, s2_image, device, log, messages>>

widgets == <<uploaded, start_date, end_date, cloud_cover>>

NoAoi == [set |-> FALSE, frame |-> "none"]
NoImage == [built |-> FALSE, scenes |-> {}]

Msg(level, text) == [level |-> level, text |-> text]
Stage(name, ok) == [stage |-> name, ok |-> ok]

\* ---- pure helpers -------------------------------------------------------
Raise == [ok |-> FALSE, crs |-> "none", geom |-> "none"]

\* gpd.read_file(kml_path)
read_file(f) ==
  IF f.valid THEN [ok |-> TRUE, crs |-> f.crs, geom |-> f.geom] ELSE Raise

\* GeoDataFrame.to_crs: transforms the coordinates into the target frame; a
\* frame without a declared source frame cannot be transformed and raises.
to_crs(gdf, target) ==
  IF gdf.crs = "none" THEN Raise ELSE [gdf EXCEPT !.crs = target]

\* Variant of Reproject that leaves the coordinates in the file's frame.
ReprojectSkipped(gdf) == gdf

\* if gpd_df.crs != "EPSG:4326": gpd_df = gpd_df.to_crs("EPSG:4326")
Reproject(gdf) ==
  IF gdf.crs # "EPSG:4326" THEN to_crs(gdf, "EPSG:4326") ELSE gdf

\* The body of the KML try block: read, reproject, take the exterior ring of
\* the first geometry, build the polygon.  ee.Geometry.Polygon reads the
\* coordinates it is given as they are, so the AOI is in the frame the
\* coordinates are in.
KmlToAoi(f) ==
  LET g == read_file(f) IN
  IF ~g.ok THEN [ok |-> FALSE, frame |-> "none"]
  ELSE LET r == Reproject(g) IN
       IF ~r.ok THEN [ok |-> FALSE, frame |-> "none"]
       ELSE IF r.geom # "Polygon" THEN [ok |-> FALSE, frame |-> "none"]
       ELSE [ok |-> TRUE, frame |-> r.crs]

\* get_sentinel_image: filterBounds / filterDate (start inclusive, end
\* exclusive) / CLOUDY_PIXEL_PERCENTAGE < clouds, then median and clip.
get_sentinel_image(roi, start, end, clouds) ==
  [built |-> TRUE,
   scenes |-> {s \in Catalog : s.date >= start /\ s.date < end /\ s.cloud < clouds}]

\* ---- start and end of a script run --------------------------------------
\* A rerun rebuilds every script variable; the widget values are kept.
StartRun(isClick) ==
  /\ pc = "idle"
  /\ run < MaxRuns
  /\ run' = run + 1
  /\ pc' = "init"
  /\ clicked' = isClick
  /\ rendered' = {}
  /\ aoi' = NoAoi
  /\ s2_image' = NoImage
  /\ device' = "none"
  /\ log' = <<>>
  /\ messages' = <<>>
  /\ UNCHANGED <<secrets, tempfs>>

\* The script run ends (last statement, st.stop() or an uncaught exception).
\* Streamlit drops the state of every widget the run did not draw, and a
\* button is True for one run only.
EndRun(drawn) ==
  /\ pc' = "idle"
  /\ clicked' = FALSE
  /\ rendered' = drawn
  /\ gpuValue' = IF "gpu" \in drawn THEN gpuValue ELSE FALSE

Init ==
  /\ run = 1
  /\ pc = "init"
  /\ secrets \in BOOLEAN
  /\ uploaded = NoFile
  /\ start_date = DefaultStart
  /\ end_date = DefaultEnd
  /\ cloud_cover = DefaultCloud
  /\ clicked = FALSE
  /\ gpuValue = FALSE
  /\ userWantsGpu = FALSE
  /\ rendered = {}
  /\ tempfs = {}
  /\ aoi = NoAoi
  /\ s2_image = NoImage
  /\ device = "none"
  /\ log = <<>>
  /\ messages = <<>>

\* ---- user interactions (each triggers a rerun) --------------------------
Upload ==
  /\ \E f \in Files \cup {NoFile} : f # uploaded /\ uploaded' = f
  /\ StartRun(FALSE)
  /\ UNCHANGED <<start_date, end_date, cloud_cover, gpuValue, userWantsGpu>>

SetStartDate ==
  /\ \E d \in Dates : d # start_date /\ start_date' = d
  /\ StartRun(FALSE)
  /\ UNCHANGED <<uploaded, end_date, cloud_cover, gpuValue, userWantsGpu>>

SetEndDate ==
  /\ \E d \in Dates : d # end_date /\ end_date' = d
  /\ StartRun(FALSE)
  /\ UNCHANGED <<uploaded, start_date, cloud_cover, gpuValue, userWantsGpu>>

SetCloudCover ==
  /\ \E c \in CloudValues : c # cloud_cover /\ cloud_cover' = c
  /\ StartRun(FALSE)
  /\ UNCHANGED <<uploaded, start_date, end_date, gpuValue, userWantsGpu>>

ClickRun ==
  /\ "button" \in rendered
  /\ StartRun(TRUE)
  /\ UNCHANGED <<widgets, gpuValue, userWantsGpu>>

ToggleGpu ==
  /\ "gpu" \in rendered
  /\ gpuValue' = ~gpuValue
  /\ userWantsGpu' = ~gpuValue
  /\ StartRun(FALSE)
  /\ UNCHANGED widgets

ClickDownload ==
  /\ "download" \in rendered
  /\ StartRun(FALSE)
  /\ UNCHANGED <<widgets, gpuValue, userWantsGpu>>

\* ---- the script ---------------------------------------------------------
\* Lines 28-50: Earth Engine initialised, with the service account or by default.
GeeInitOk ==
  /\ pc = "init"
  /\ messages' =
       IF secrets
       THEN Append(messages, Msg("success", "GEE Initialized!"))
       ELSE messages \o <<Msg("warning", "Secrets not found. Trying default auth..."),
                          Msg("success", "GEE Initialized (Default)")>>
  /\ pc' = "upload"
  /\ UNCHANGED <<run, secrets, widgets, clicked, gpuValue, userWantsGpu, rendered, tempfs,
                 aoi, s2_image, device, log>>

\* Variant of GeeInitFail without st.stop(): the script goes on.
GeeInitFailNoStop ==
  /\ pc = "init"
  /\ messages' =
       (IF secrets THEN messages
        ELSE Append(messages, Msg("warning", "Secrets not found. Trying default auth...")))
         \o <<Msg("error", "GEE Initialization failed"),
              Msg("info", "Check your .streamlit/secrets.toml file.")>>
  /\ pc' = "upload"
  /\ UNCHANGED <<run, secrets, widgets, clicked, gpuValue, userWantsGpu, rendered, tempfs,
                 aoi, s2_image, device, log>>

\* Lines 52-55: any exception of the initialisation: error, hint, st.stop().
GeeInitFail ==
  /\ pc = "init"
  /\ messages' =
       (IF secrets THEN messages
        ELSE Append(messages, Msg("warning", "Secrets not found. Trying default auth...")))
         \o <<Msg("error", "GEE Initialization failed"),
              Msg("info", "Check your .streamlit/secrets.toml file.")>>
  /\ EndRun(rendered)
  /\ UNCHANGED <<run, secrets, widgets, userWantsGpu, tempfs, aoi, s2_image, device, log>>

\* Lines 83, 210-211: nothing uploaded.
NoUpload ==
  /\ pc = "upload"
  /\ uploaded = NoFile
  /\ messages' = Append(messages, Msg("info", "Please upload a KML file to begin."))
  /\ EndRun(rendered)
  /\ UNCHANGED <<run, secrets, widgets, userWantsGpu, tempfs, aoi, s2_image, device, log>>

\* Lines 83-87: the upload is written to a fresh NamedTemporaryFile(delete=False).
WriteKml ==
  /\ pc = "upload"
  /\ uploaded # NoFile
  /\ tempfs' = tempfs \cup {<<"kml", run>>}
  /\ pc' = "parse"
  /\ UNCHANGED <<run, secrets, widgets, clicked, gpuValue, userWantsGpu, rendered, aoi,
                 s2_image, device, log, messages>>

\* Lines 90-102: the KML try block ran to its end.
ParseOk ==
  /\ pc = "parse"
  /\ KmlToAoi(uploaded).ok
  /\ aoi' = [set |-> TRUE, frame |-> KmlToAoi(uploaded).frame]
  /\ log' = Append(log, Stage("ingest", TRUE))
  /\ messages' = Append(messages, Msg("success", "AOI Loaded."))
  /\ pc' = "acquire"
  /\ UNCHANGED <<run, secrets, widgets, clicked, gpuValue, userWantsGpu, rendered, tempfs,
                 s2_image, device>>

\* Variant of ParseFail without st.stop(): the script goes on.
ParseFailNoStop ==
  /\ pc = "parse"
  /\ ~KmlToAoi(uploaded).ok
  /\ log' = Append(log, Stage("ingest", FALSE))
  /\ messages' = Append(messages, Msg("error", "Error parsing KML"))
  /\ pc' = "acquire"
  /\ UNCHANGED <<run, secrets, widgets, clicked, gpuValue, userWantsGpu, rendered, tempfs,
                 aoi, s2_image, device>>

\* Lines 103-105: the KML try block raised: error, st.stop().
ParseFail ==
  /\ pc = "parse"
  /\ ~KmlToAoi(uploaded).ok
  /\ log' = Append(log, Stage("ingest", FALSE))
  /\ messages' = Append(messages, Msg("error", "Error parsing KML"))
  /\ EndRun(rendered)
  /\ UNCHANGED <<run, secrets, widgets, userWantsGpu, tempfs, aoi, s2_image, device>>

\* Line 119: the composite is built (a lazy expression, nothing is sent yet).
Acquire ==
  /\ pc = "acquire"
  /\ s2_image' = get_sentinel_image(aoi, start_date, end_date, cloud_cover)
  /\ log' = Append(log, Stage("acquire", TRUE))
  /\ pc' = "preview"
  /\ UNCHANGED <<run, secrets, widgets, clicked, gpuValue, userWantsGpu, rendered, tempfs,
                 aoi, device, messages>>

\* Lines 129-136: the preview map is built and shown; this evaluates the
\* composite on the remote service.
PreviewOk ==
  /\ pc = "preview"
  /\ log' = Append(log, Stage("preview", TRUE))
  /\ pc' = "button"
  /\ UNCHANGED <<run, secrets, widgets, clicked, gpuValue, userWantsGpu, rendered, tempfs,
                 aoi, s2_image, device, messages>>

\* Lines 129-136 raise: nothing catches it, the run dies and Streamlit shows
\* the exception.
PreviewFail ==
  /\ pc = "preview"
  /\ log' = Append(log, Stage("preview", FALSE))
  /\ messages' = Append(messages, Msg("exception", "uncaught exception"))
  /\ EndRun(rendered)
  /\ UNCHANGED <<run, secrets, widgets, userWantsGpu, tempfs, aoi, s2_image, device>>

\* Line 141: the button is drawn and was not clicked; the script is over.
ButtonIdle ==
  /\ pc = "button"
  /\ ~clicked
  /\ EndRun(rendered \cup {"button"})
  /\ UNCHANGED <<run, secrets, widgets, userWantsGpu, tempfs, aoi, s2_image, device, log,
                 messages>>

\* Lines 141-147: the button was clicked; tempfile.mkdtemp().
ButtonClicked ==
  /\ pc = "button"
  /\ clicked
  /\ rendered' = rendered \cup {"button"}
  /\ tempfs' = tempfs \cup {<<"dir", run>>}
  /\ pc' = "download"
  /\ UNCHANGED <<run, secrets, widgets, clicked, gpuValue, userWantsGpu, aoi, s2_image,
                 device, log, messages>>

\* Lines 206-208: the except clause of the segmentation block; the script
\* ends after it.
Handler(stage, drawn) ==
  /\ log' = Append(log, Stage(stage, FALSE))
  /\ messages' =
       messages \o <<Msg("error", "An error occurred during processing"),
                     Msg("info", "Tip: try a smaller AOI or the 'Tiny' model.")>>
  /\ EndRun(drawn)
  /\ UNCHANGED <<run, secrets, widgets, userWantsGpu, aoi, s2_image>>

\* Lines 150-156: geemap.ee_export_image writes satellite_image.tif.
DownloadOk ==
  /\ pc = "download"
  /\ tempfs' = tempfs \cup {<<"satellite_image.tif", run>>}
  /\ log' = Append(log, Stage("download", TRUE))
  /\ pc' = "sam_init"
  /\ UNCHANGED <<run, secrets, widgets, clicked, gpuValue, userWantsGpu, rendered, aoi,
                 s2_image, device, messages>>

\* Variant of DownloadFail that issues the download again instead of reporting.
DownloadFailRetry ==
  /\ pc = "download"
  /\ log' = Append(log, Stage("download", FALSE))
  /\ UNCHANGED <<run, pc, secrets, widgets, clicked, gpuValue, userWantsGpu, rendered,
                 tempfs, aoi, s2_image, device, messages>>

DownloadFail ==
  /\ pc = "download"
  /\ Handler("download", rendered)
  /\ UNCHANGED <<tempfs, device>>

DeviceFromSession(checked) == IF checked THEN "cuda" ELSE "cpu"

\* Lines 160-164: the checkbox is drawn (an argument of the call), then
\* SamGeo2 is constructed.
SamInitOk ==
  /\ pc = "sam_init"
  /\ rendered' = rendered \cup {"gpu"}
  /\ device' = DeviceFromSession(gpuValue)
  /\ log' = Append(log, Stage("sam_init", TRUE))
  /\ pc' = "generate"
  /\ UNCHANGED <<run, secrets, widgets, clicked, gpuValue, userWantsGpu, tempfs, aoi,
                 s2_image, messages>>

SamInitFail ==
  /\ pc = "sam_init"
  /\ device' = DeviceFromSession(gpuValue)
  /\ Handler("sam_init", rendered \cup {"gpu"})
  /\ UNCHANGED tempfs

\* Lines 167-177: sam.generate writes segmentation_mask.tif.
GenerateOk ==
  /\ pc = "generate"
  /\ tempfs' = tempfs \cup {<<"segmentation_mask.tif", run>>}
  /\ log' = Append(log, Stage("generate", TRUE))
  /\ pc' = "vectorize"
  /\ UNCHANGED <<run, secrets, widgets, clicked, gpuValue, userWantsGpu, rendered, aoi,
                 s2_image, device, messages>>

GenerateFail ==
  /\ pc = "generate"
  /\ Handler("generate", rendered)
  /\ UNCHANGED <<tempfs, device>>

\* Line 180: sam.tiff_to_vector writes field_boundaries.gpkg.
VectorizeOk ==
  /\ pc = "vectorize"
  /\ tempfs' = tempfs \cup {<<"field_boundaries.gpkg", run>>}
  /\ log' = Append(log, Stage("vectorize", TRUE))
  /\ pc' = "render"
  /\ UNCHANGED <<run, secrets, widgets, clicked, gpuValue, userWantsGpu, rendered, aoi,
                 s2_image, device, messages>>

\* Variant of VectorizeFail that reports and goes on to the result map.
VectorizeFailContinue ==
  /\ pc = "vectorize"
  /\ log' = Append(log, Stage("vectorize", FALSE))
  /\ messages' = Append(messages, Msg("error", "An error occurred during processing"))
  /\ pc' = "render"
  /\ UNCHANGED <<run, secrets, widgets, clicked, gpuValue, userWantsGpu, rendered, tempfs,
                 aoi, s2_image, device>>

VectorizeFail ==
  /\ pc = "vectorize"
  /\ Handler("vectorize", rendered)
  /\ UNCHANGED <<tempfs, device>>

\* Lines 183-195: success message, the vector file is read back and the
\* result map is shown.
RenderOk ==
  /\ pc = "render"
  /\ messages' = Append(messages, Msg("success", "Segmentation Complete!"))
  /\ log' = Append(log, Stage("render", TRUE))
  /\ pc' = "export"
  /\ UNCHANGED <<run, secrets, widgets, clicked, gpuValue, userWantsGpu, rendered, tempfs,
                 aoi, s2_image, device>>

RenderFail ==
  /\ pc = "render"
  /\ log' = Append(log, Stage("render", FALSE))
  /\ messages' =
       messages \o <<Msg("success", "Segmentation Complete!"),
                     Msg("error", "An error occurred during processing"),
                     Msg("info", "Tip: try a smaller AOI or the 'Tiny' model.")>>
  /\ EndRun(rendered)
  /\ UNCHANGED <<run, secrets, widgets, userWantsGpu, tempfs, aoi, s2_image, device>>

\* Lines 198-204: the download button is offered; the script ends.
ExportOk ==
  /\ pc = "export"
  /\ log' = Append(log, Stage("export", TRUE))
  /\ EndRun(rendered \cup {"download"})
  /\ UNCHANGED <<run, secrets, widgets, userWantsGpu, tempfs, aoi, s2_image, device,
                 messages>>

ExportFail ==
  /\ pc = "export"
  /\ Handler("export", rendered)
  /\ UNCHANGED <<tempfs, device>>

Next ==
  \/ Upload
  \/ SetStartDate
  \/ SetEndDate
  \/ SetCloudCover
  \/ ClickRun
  \/ ToggleGpu
  \/ ClickDownload
  \/ GeeInitOk
  \/ GeeInitFail
  \/ NoUpload
  \/ WriteKml
  \/ ParseOk
  \/ ParseFail
  \/ Acquire
  \/ PreviewOk
  \/ PreviewFail
  \/ ButtonIdle
  \/ ButtonClicked
  \/ DownloadOk
  \/ DownloadFail
  \/ SamInitOk
  \/ SamInitFail
  \/ GenerateOk
  \/ GenerateFail
  \/ VectorizeOk
  \/ VectorizeFail
  \/ RenderOk
  \/ RenderFail
  \/ ExportOk
  \/ ExportFail

Spec == Init /\ [][Next]_vars

\* ---- what a run has done, read off its log and its messages -------------
Ran(stage) == \E i \in DOMAIN log : log[i].stage = stage
Succeeded(stage) == \E i \in DOMAIN log : log[i].stage = stage /\ log[i].ok
Shown(text) == \E i \in DOMAIN messages : messages[i].text = text
AuthFailed == Shown("GEE Initialization failed")
ParseErrorReported == Shown("Error parsing KML")
RunOver == pc = "idle"

\* The order in which the script executes its stages.
StageOrder ==
  <<"ingest", "acquire", "preview", "download", "sam_init", "generate", "vectorize",
    "render", "export">>

\* The stage an error message names.
IdentifiedStage(text) ==
  CASE text = "Error parsing KML" -> "ingest"
    [] text = "GEE Initialization failed" -> "auth"
    [] OTHER -> "none"

\* C1: once a run is over, no temporary file or directory it created is
\* left on disk, whatever way the run ended.
C1_TempFilesRemoved == RunOver => tempfs = {}

\* C2: a run whose Earth Engine initialisation failed is over and has run no
\* pipeline stage: no KML written or parsed, no imagery query, no model call.
C2_AuthFailureHalts ==
  AuthFailed =>
    /\ RunOver
    /\ log = <<>>
    /\ ~aoi.set
    /\ ~s2_image.built
    /\ device = "none"
    /\ rendered = {}
    /\ \A t \in tempfs : t[2] # run

C2_Witness == AuthFailed /\ RunOver /\ KmlToAoi(uploaded).ok

\* C3: for every uploaded file, ingestion ends either with an AOI and no
\* parse error, or with a parse error, no AOI, and no later stage in the run.
C3_IngestOneOutcome ==
  /\ (RunOver /\ uploaded # NoFile /\ ~AuthFailed) => Ran("ingest")
  /\ Ran("ingest") =>
       \/ /\ aoi.set
          /\ ~ParseErrorReported
          /\ log[1] = Stage("ingest", TRUE)
       \/ /\ ~aoi.set
          /\ ParseErrorReported
          /\ log = <<Stage("ingest", FALSE)>>
          /\ RunOver
          /\ ~s2_image.built
          /\ device = "none"
          /\ rendered = {}

C3_Witness == RunOver /\ ParseErrorReported /\ uploaded.valid

\* C4: with a start date later than the end date, no imagery query is built
\* and no preview or download is issued.
C4_DateWindowRejected ==
  start_date > end_date => ~(Ran("acquire") \/ Ran("preview") \/ Ran("download"))

\* C5: when no scene matches the filters, the run reports the distinguished
\* empty-result condition and never invokes the segmentation model.
C5_EmptyResultDistinguished ==
  (s2_image.built /\ s2_image.scenes = {}) =>
    /\ Shown("ImageryUnavailableError")
    /\ ~Ran("sam_init")
    /\ ~Ran("generate")

\* C6: every failed stage is caught and reported by an error message that
\* names the stage, together with a corrective suggestion; nothing escapes
\* uncaught.
C6_FailuresReported ==
  /\ \A i \in DOMAIN messages : messages[i].level # "exception"
  /\ \A i \in DOMAIN log :
       ~log[i].ok =>
         /\ \E j \in DOMAIN messages :
              /\ messages[j].level = "error"
              /\ IdentifiedStage(messages[j].text) = log[i].stage
         /\ \E k \in DOMAIN messages : messages[k].level = "info"

C9_AoiGeographic ==
  /\ aoi.set => aoi.frame = "EPSG:4326"
  /\ (Ran("acquire") \/ s2_image.built) => (aoi.set /\ aoi.frame = "EPSG:4326")

C9_Witness == aoi.set /\ uploaded.crs = "EPSG:32643" /\ Ran("acquire")

\* C10: once the user has ticked "Use GPU", the model is constructed with
\* device 'cuda'.
C10_GpuHonoured == (userWantsGpu /\ Ran("sam_init")) => device = "cuda"

====
